---- MODULE Spec2Model ----
(***************************************************************************)
(* The prediction-market pallet of pallets/template/src/lib.rs as a state  *)
(* machine: the pallet's storage items, the balances of the Currency the   *)
(* pallet drives, the block number, and one action per dispatchable and    *)
(* per hook.                                                               *)
(***************************************************************************)
EXTENDS Integers, Sequences, FiniteSets, TLC

\* ---------------------------------------------------------------- bounds
\* Stand-in for u128::MAX: market_id.checked_add(1) fails at this value.
MarketIdMax == 3
\* The block number stops advancing here.
MaxTick == 3
\* Largest price offered to buy_outcome.
MaxPrice == 2
\* Free balance of every signer at genesis.
InitialBalance == 2
\* Largest remaining_weight handed to on_idle.
MaxWeight == 4
\* Stand-in for CacheSize = ConstU32<64>, the capacity of a bucket of
\* MarketIdsPerCloseBlock, small enough for a full bucket to be reached.
CacheSize == 1

\* ------------------------------------------------- runtime configuration
\* T::CreatorBond
CreatorBond == 1
\* T::MarketCreatorClearStorageTime
MarketCreatorClearStorageTime == 0
\* T::MaxOutcomes
MaxOutcomes == 2
\* T::MinMarketPeriod (integrity_test: not zero)
MinMarketPeriod == 1
\* T::WeightInfo::do_something(), one component
DoSomethingWeight == 2
\* T::DbWeight::get().reads(1) and .writes(1)
DbRead == 1
DbWrite == 1

\* ------------------------------------------------------------- accounts
Signers == {"A", "B"}
Origins == Signers \cup {"Root"}
\* The accounts create_market is given as oracle
Oracles == {"B"}

\* Self::market_account: the sub-account of the pallet derived from the id
market_account(market_id) == "market" \o ToString(market_id)

MarketIds == 1 .. MarketIdMax
Accounts == Signers \cup {market_account(id) : id \in MarketIds}
Ticks == 1 .. MaxTick

\* Option<T>
None == <<>>
Some(x) == <<x>>

VARIABLES
  now,                \* frame_system block_number
  phase,              \* position of the block's driver
  market_counter,     \* MarketCounter
  markets,            \* Markets: id -> Market, the stored ids only
  outcomes,           \* Outcomes: id -> list of Outcome, the stored ids only
  buckets,            \* MarketIdsPerCloseBlock: block -> list of ids
  free,               \* Currency free balance
  reserved,           \* Currency reserved balance
  events,             \* events deposited by the last call or hook
  last,               \* the last call or hook and what it returned
  last_buy,           \* history: the arguments of the last successful buy_outcome
  cleared,            \* history: the ids clear_storage has removed
  debug_assert_failed \* a debug_assert! saw its condition false

storage == <<market_counter, markets, outcomes, buckets>>
balances == <<free, reserved>>
vars == <<now, phase, market_counter, markets, outcomes, buckets, free,
          reserved, events, last, last_buy, cleared,
          debug_assert_failed>>

\* ------------------------------------------------------ storage helpers
\* StorageMap<.., ValueQuery>::get: the default (empty list) when absent
OutcomesGet(market_id) ==
  IF market_id \in DOMAIN outcomes THEN outcomes[market_id] ELSE <<>>

BucketGet(bs, n) == IF n \in DOMAIN bs THEN bs[n] ELSE <<>>

\* StorageMap::insert and ::remove on a map kept as a function
Insert(map, k, v) == [x \in DOMAIN map \cup {k} |-> IF x = k THEN v ELSE map[x]]
Remove(map, k) == [x \in DOMAIN map \ {k} |-> map[x]]

\* Saturating::saturating_sub on an unsigned block number
saturating_sub(a, b) == IF a >= b THEN a - b ELSE 0

Min(a, b) == IF a <= b THEN a ELSE b

RECURSIVE SumPrices(_)
SumPrices(os) == IF os = <<>> THEN 0 ELSE Head(os).price + SumPrices(Tail(os))

\* ------------------------------------------------------------- Currency
\* Currency::can_reserve
can_reserve(who, value) == free[who] >= value

\* Currency::transfer(.., AllowDeath): Ok exactly when this holds
TransferOk(bal, from, to, value) ==
  value = 0 \/ from = to \/ bal[from] >= value

Transfer(bal, from, to, value) ==
  IF value = 0 \/ from = to THEN bal
  ELSE [bal EXCEPT ![from] = @ - value, ![to] = @ + value]

Result(op, result, weight) == [op |-> op, result |-> result, weight |-> weight]

Init ==
  /\ now = 0
  /\ phase = "finalized"
  /\ market_counter = 1
  /\ markets = <<>>
  /\ outcomes = <<>>
  /\ buckets = <<>>
  /\ free = [a \in Accounts |-> IF a \in Signers THEN InitialBalance ELSE 0]
  /\ reserved = [a \in Accounts |-> 0]
  /\ events = <<>>
  /\ last = Result("genesis", "Ok", 0)
  /\ last_buy = None
  /\ cleared = {}
  /\ debug_assert_failed = FALSE

\* ------------------------------------------------------------ the hooks
\* Mutant of on_initialize_impl: bucket n is not removed.
on_initialize_keeps_bucket(ms, bs, n) ==
  LET market_ids == BucketGet(bs, n)
      found == SelectSeq(market_ids, LAMBDA id : id \in DOMAIN ms)
      hit == {found[i] : i \in 1 .. Len(found)}
  IN [markets |-> [id \in DOMAIN ms |->
                     IF id \in hit THEN [ms[id] EXCEPT !.status = "Closed"]
                     ELSE ms[id]],
      buckets |-> bs,
      events |-> [i \in 1 .. Len(found) |->
                    [name |-> "MarketClosed", market_id |-> found[i]]],
      weight |-> DbRead + Len(market_ids) * DbRead + Len(found) * DbWrite,
      asserted |-> \A i \in 1 .. Len(found) :
                     /\ ms[found[i]].status = "Active"
                     /\ \A j \in 1 .. (i - 1) : found[j] # found[i]]

\* Mutant of on_initialize_impl: the bucket of the next block is removed.
on_initialize_removes_next_bucket(ms, bs, n) ==
  LET market_ids == BucketGet(bs, n)
      found == SelectSeq(market_ids, LAMBDA id : id \in DOMAIN ms)
      hit == {found[i] : i \in 1 .. Len(found)}
  IN [markets |-> [id \in DOMAIN ms |->
                     IF id \in hit THEN [ms[id] EXCEPT !.status = "Closed"]
                     ELSE ms[id]],
      buckets |-> Remove(bs, n + 1),
      events |-> [i \in 1 .. Len(found) |->
                    [name |-> "MarketClosed", market_id |-> found[i]]],
      weight |-> DbRead + Len(market_ids) * DbRead + Len(found) * DbWrite
                 + DbWrite,
      asserted |-> \A i \in 1 .. Len(found) :
                     /\ ms[found[i]].status = "Active"
                     /\ \A j \in 1 .. (i - 1) : found[j] # found[i]]

\* on_initialize(n) on given Markets and MarketIdsPerCloseBlock maps: every
\* id of bucket n that has a market record is set to Closed, whatever its
\* status (the debug_assert! only observes it), and bucket n is removed.
on_initialize_impl(ms, bs, n) ==
  LET market_ids == BucketGet(bs, n)
      found == SelectSeq(market_ids, LAMBDA id : id \in DOMAIN ms)
      hit == {found[i] : i \in 1 .. Len(found)}
  IN [markets |-> [id \in DOMAIN ms |->
                     IF id \in hit THEN [ms[id] EXCEPT !.status = "Closed"]
                     ELSE ms[id]],
      buckets |-> Remove(bs, n),
      events |-> [i \in 1 .. Len(found) |->
                    [name |-> "MarketClosed", market_id |-> found[i]]],
      weight |-> DbRead + Len(market_ids) * DbRead + Len(found) * DbWrite
                 + DbWrite,
      asserted |-> \A i \in 1 .. Len(found) :
                     /\ ms[found[i]].status = "Active"
                     /\ \A j \in 1 .. (i - 1) : found[j] # found[i]]

\* The executive sets the block number and runs on_initialize(n).
OnInitialize ==
  /\ phase = "finalized"
  /\ now < MaxTick
  /\ LET n == now + 1
         r == on_initialize_impl(markets, buckets, n)
     IN /\ now' = n
        /\ markets' = r.markets
        /\ buckets' = r.buckets
        /\ events' = r.events
        /\ last' = Result("on_initialize", "Ok", r.weight)
        /\ debug_assert_failed' = (debug_assert_failed \/ ~r.asserted)
  /\ phase' = "initialized"
  /\ UNCHANGED <<market_counter, outcomes, free, reserved, last_buy,
                 cleared>>

\* on_finalize(n) = on_finalize_impl(n): the ids due at n + 1, as an event
OnFinalize ==
  /\ phase = "idle"
  /\ LET market_ids_to_close_next_block == BucketGet(buckets, now + 1)
     IN events' = IF market_ids_to_close_next_block = <<>> THEN <<>>
                  ELSE <<[name |-> "MarketsToCloseNextBlock",
                          market_ids |-> market_ids_to_close_next_block]>>
  /\ last' = Result("on_finalize", "Ok", 0)
  /\ phase' = "finalized"
  /\ UNCHANGED <<now, storage, balances, last_buy, cleared,
                 debug_assert_failed>>

\* ------------------------------------------------------- create_market
\* The Outcome list create_market builds: outcome_amount entries pushed onto
\* what Outcomes holds under the id (nothing), each owned by the creator.
NewOutcomes(who, market_id, outcome_amount) ==
  OutcomesGet(market_id) \o
    [i \in 1 .. outcome_amount |-> [owner |-> who, data |-> i - 1, price |-> 0]]

\* Mutant of NewCounter: the counter is written back as it was read.
NewCounterStuck(market_id) == market_id

\* market_id.checked_add(1)
NewCounter(market_id) == market_id + 1

\* Mutant of CreateMarketError: the bucket is pushed to without its bound.
CreateMarketErrorUnboundedBucket(origin, outcome_amount, end) ==
  IF origin \notin Signers THEN "BadOrigin"
  ELSE IF ~can_reserve(origin, CreatorBond) THEN "InsufficientCreatorBalance"
  ELSE IF outcome_amount = 0 THEN "OutcomeAmountTooLow"
  ELSE IF saturating_sub(end, now) < MinMarketPeriod THEN "BelowMinMarketPeriod"
  ELSE IF market_counter >= MarketIdMax THEN "MarketCounterStorageOverflow"
  ELSE IF Len(NewOutcomes(origin, market_counter, outcome_amount)) > MaxOutcomes
    THEN "OutcomesStorageOverflow"
  ELSE "Ok"

\* The first check of create_market that fails, in the order of the code.
CreateMarketError(origin, outcome_amount, end) ==
  IF origin \notin Signers THEN "BadOrigin"
  ELSE IF ~can_reserve(origin, CreatorBond) THEN "InsufficientCreatorBalance"
  ELSE IF outcome_amount = 0 THEN "OutcomeAmountTooLow"
  ELSE IF saturating_sub(end, now) < MinMarketPeriod THEN "BelowMinMarketPeriod"
  ELSE IF market_counter >= MarketIdMax THEN "MarketCounterStorageOverflow"
  ELSE IF Len(NewOutcomes(origin, market_counter, outcome_amount)) > MaxOutcomes
    THEN "OutcomesStorageOverflow"
  ELSE IF Len(BucketGet(buckets, end)) >= CacheSize
    THEN "MarketIdsPerCloseBlockStorageOverflow"
  ELSE "Ok"

create_market(origin, outcome_amount, end, oracle) ==
  /\ phase = "extrinsics"
  /\ LET err == CreateMarketError(origin, outcome_amount, end)
         who == origin
         market_id == market_counter
         market == [creator |-> who, bond |-> CreatorBond, end |-> end,
                    oracle |-> oracle, oracle_outcome_report |-> None,
                    status |-> "Active"]
     IN /\ last' = Result("create_market", err, 0)
        /\ IF err = "Ok"
           THEN /\ buckets' = Insert(buckets, end,
                                     Append(BucketGet(buckets, end), market_id))
                /\ free' = [free EXCEPT ![who] = @ - CreatorBond]
                /\ reserved' = [reserved EXCEPT ![who] = @ + CreatorBond]
                /\ outcomes' = Insert(outcomes, market_id,
                                      NewOutcomes(who, market_id, outcome_amount))
                /\ markets' = Insert(markets, market_id, market)
                /\ market_counter' = NewCounter(market_id)
                /\ events' = <<[name |-> "MarketCreated", market_id |-> market_id,
                                creator |-> who]>>
                /\ debug_assert_failed' =
                     (debug_assert_failed \/ market_id \in DOMAIN markets)
           ELSE /\ events' = <<>>
                /\ UNCHANGED <<storage, balances, debug_assert_failed>>
  /\ phase' = "dispatched"
  /\ UNCHANGED <<now, last_buy, cleared>>

\* ------------------------------------------------------ destroy_market
DestroyMarketError(origin, market_id) ==
  IF origin # "Root" THEN "BadOrigin"
  ELSE IF market_id \notin DOMAIN markets THEN "MarketNotFound"
  ELSE "Ok"

\* Mutant of destroy_market: the creator's bond is unreserved.
destroy_market_unreserves(origin, market_id) ==
  /\ phase = "extrinsics"
  /\ LET err == DestroyMarketError(origin, market_id)
     IN /\ last' = Result("destroy_market", err, 0)
        /\ IF err = "Ok"
           THEN LET market == markets[market_id]
                    actual == Min(reserved[market.creator], market.bond)
                IN /\ reserved' = [reserved EXCEPT ![market.creator] = @ - actual]
                   /\ free' = [free EXCEPT ![market.creator] = @ + actual]
                   /\ markets' = Remove(markets, market_id)
                   /\ outcomes' = Remove(outcomes, market_id)
                   /\ events' = <<[name |-> "MarketDestroyed",
                                   market_id |-> market_id]>>
           ELSE /\ events' = <<>>
                /\ UNCHANGED <<markets, outcomes, balances>>
  /\ phase' = "dispatched"
  /\ UNCHANGED <<now, market_counter, buckets, last_buy, cleared,
                 debug_assert_failed>>

destroy_market(origin, market_id) ==
  /\ phase = "extrinsics"
  /\ LET err == DestroyMarketError(origin, market_id)
     IN /\ last' = Result("destroy_market", err, 0)
        /\ IF err = "Ok"
           THEN /\ markets' = Remove(markets, market_id)
                /\ outcomes' = Remove(outcomes, market_id)
                /\ events' = <<[name |-> "MarketDestroyed",
                                market_id |-> market_id]>>
           ELSE /\ events' = <<>>
                /\ UNCHANGED <<markets, outcomes>>
  /\ phase' = "dispatched"
  /\ UNCHANGED <<now, market_counter, buckets, balances, last_buy, cleared,
                 debug_assert_failed>>

\* --------------------------------------------------------- buy_outcome
\* What buy_outcome leaves in Outcomes: `outcomes` is the value returned by
\* Outcomes::get, `outcome.owner = who` changes that local value, and no
\* insert or mutate writes it back; `outcome.price` is never assigned.
OutcomesAfterBuy(who, market_id, outcome_index, price) == outcomes

\* Mutant of BuyOutcomeError: the offered price is not compared with the
\* stored one.
BuyOutcomeErrorNoPriceCheck(origin, market_id, outcome_index, price) ==
  IF origin \notin Signers THEN "BadOrigin"
  ELSE IF free[origin] < price THEN "InsufficientBuyerBalance"
  ELSE IF market_id \notin DOMAIN markets THEN "MarketNotFound"
  ELSE IF markets[market_id].status # "Active" THEN "MarketNotActive"
  ELSE IF outcome_index >= Len(OutcomesGet(market_id)) THEN "InvalidOutcomeIndex"
  ELSE LET outcome == OutcomesGet(market_id)[outcome_index + 1]
           pot == market_account(market_id)
           refunded == IF outcome.price # 0
                       THEN Transfer(free, pot, outcome.owner, outcome.price)
                       ELSE free
       IN IF outcome.price # 0
             /\ ~TransferOk(free, pot, outcome.owner, outcome.price)
            THEN "InsufficientBalance"
          ELSE IF ~TransferOk(refunded, origin, pot, price)
            THEN "InsufficientBalance"
          ELSE "Ok"

\* The first check of buy_outcome that fails, in the order of the code.
\* ensure_can_withdraw is Ok once the free balance covers price (no locks
\* are kept); the two transfers come last and the #[transactional] layer
\* undoes the first when the second fails.
BuyOutcomeError(origin, market_id, outcome_index, price) ==
  IF origin \notin Signers THEN "BadOrigin"
  ELSE IF free[origin] < price THEN "InsufficientBuyerBalance"
  ELSE IF market_id \notin DOMAIN markets THEN "MarketNotFound"
  ELSE IF markets[market_id].status # "Active" THEN "MarketNotActive"
  ELSE IF outcome_index >= Len(OutcomesGet(market_id)) THEN "InvalidOutcomeIndex"
  ELSE LET outcome == OutcomesGet(market_id)[outcome_index + 1]
           pot == market_account(market_id)
           refunded == IF outcome.price # 0
                       THEN Transfer(free, pot, outcome.owner, outcome.price)
                       ELSE free
       IN IF ~(outcome.price < price) THEN "PriceTooLow"
          ELSE IF outcome.price # 0
                  /\ ~TransferOk(free, pot, outcome.owner, outcome.price)
            THEN "InsufficientBalance"
          ELSE IF ~TransferOk(refunded, origin, pot, price)
            THEN "InsufficientBalance"
          ELSE "Ok"

buy_outcome(origin, market_id, outcome_index, price) ==
  /\ phase = "extrinsics"
  /\ LET err == BuyOutcomeError(origin, market_id, outcome_index, price)
         who == origin
     IN /\ last' = Result("buy_outcome", err, 0)
        /\ IF err = "Ok"
           THEN LET outcome == OutcomesGet(market_id)[outcome_index + 1]
                    pot == market_account(market_id)
                    refunded == IF outcome.price # 0
                                THEN Transfer(free, pot, outcome.owner,
                                              outcome.price)
                                ELSE free
                IN /\ free' = Transfer(refunded, who, pot, price)
                   /\ outcomes' =
                        OutcomesAfterBuy(who, market_id, outcome_index, price)
                   /\ events' = <<[name |-> "OutcomeBought",
                                   market_id |-> market_id,
                                   outcome_index |-> outcome_index,
                                   buyer |-> who]>>
                   /\ last_buy' = Some([market_id |-> market_id,
                                         outcome_index |-> outcome_index,
                                         buyer |-> who, price |-> price])
           ELSE /\ events' = <<>>
                /\ UNCHANGED <<free, outcomes, last_buy>>
  /\ phase' = "dispatched"
  /\ UNCHANGED <<now, market_counter, markets, buckets, reserved, cleared,
                 debug_assert_failed>>

\* ---------------------------------------------------- report_as_oracle
\* Mutant of ReportError: the status check is missing.
ReportErrorNoStatusCheck(origin, market_id) ==
  IF origin \notin Signers THEN "BadOrigin"
  ELSE IF market_id \notin DOMAIN markets THEN "MarketNotFound"
  ELSE IF markets[market_id].oracle_outcome_report # None
    THEN "OutcomeAlreadyReported"
  ELSE IF markets[market_id].oracle # origin THEN "CallerNotOracle"
  ELSE "Ok"

\* Mutant of ReportError: the check for an earlier report is missing.
ReportErrorNoReportCheck(origin, market_id) ==
  IF origin \notin Signers THEN "BadOrigin"
  ELSE IF market_id \notin DOMAIN markets THEN "MarketNotFound"
  ELSE IF markets[market_id].status # "Closed" THEN "InvalidMarketStatus"
  ELSE IF markets[market_id].oracle # origin THEN "CallerNotOracle"
  ELSE "Ok"

\* Mutant of ReportError: the oracle may report while the market is Active.
ReportErrorAcceptsActive(origin, market_id) ==
  IF origin \notin Signers THEN "BadOrigin"
  ELSE IF market_id \notin DOMAIN markets THEN "MarketNotFound"
  ELSE IF markets[market_id].oracle_outcome_report # None
    THEN "OutcomeAlreadyReported"
  ELSE IF markets[market_id].status \notin {"Active", "Closed"}
    THEN "InvalidMarketStatus"
  ELSE IF markets[market_id].oracle # origin THEN "CallerNotOracle"
  ELSE "Ok"

\* The first check of report_as_oracle that fails, in the order of the code.
ReportError(origin, market_id) ==
  IF origin \notin Signers THEN "BadOrigin"
  ELSE IF market_id \notin DOMAIN markets THEN "MarketNotFound"
  ELSE IF markets[market_id].oracle_outcome_report # None
    THEN "OutcomeAlreadyReported"
  ELSE IF markets[market_id].status # "Closed" THEN "InvalidMarketStatus"
  ELSE IF markets[market_id].oracle # origin THEN "CallerNotOracle"
  ELSE "Ok"

\* Mutant of report_as_oracle: an index outside the outcome list is refused.
report_as_oracle_checks_index(origin, market_id, outcome_index) ==
  /\ phase = "extrinsics"
  /\ LET err == IF /\ ReportError(origin, market_id) = "Ok"
                   /\ outcome_index >= Len(OutcomesGet(market_id))
                THEN "InvalidOutcomeIndex"
                ELSE ReportError(origin, market_id)
     IN /\ last' = Result("report_as_oracle", err, 0)
        /\ IF err = "Ok"
           THEN /\ markets' =
                     [markets EXCEPT
                        ![market_id].oracle_outcome_report = Some(outcome_index),
                        ![market_id].status = "Reported"]
                /\ events' = <<[name |-> "MarketReported",
                                market_id |-> market_id,
                                oracle_report_outcome |-> outcome_index]>>
           ELSE /\ events' = <<>>
                /\ UNCHANGED markets
  /\ phase' = "dispatched"
  /\ UNCHANGED <<now, market_counter, outcomes, buckets, balances,
                 last_buy, cleared, debug_assert_failed>>

report_as_oracle(origin, market_id, outcome_index) ==
  /\ phase = "extrinsics"
  /\ LET err == ReportError(origin, market_id)
     IN /\ last' = Result("report_as_oracle", err, 0)
        /\ IF err = "Ok"
           THEN /\ markets' =
                     [markets EXCEPT
                        ![market_id].oracle_outcome_report = Some(outcome_index),
                        ![market_id].status = "Reported"]
                /\ events' = <<[name |-> "MarketReported",
                                market_id |-> market_id,
                                oracle_report_outcome |-> outcome_index]>>
           ELSE /\ events' = <<>>
                /\ UNCHANGED markets
  /\ phase' = "dispatched"
  /\ UNCHANGED <<now, market_counter, outcomes, buckets, balances,
                 last_buy, cleared, debug_assert_failed>>

\* --------------------------------------------------------------- redeem
\* redeem reads the report, never the status.
RedeemError(origin, market_id) ==
  IF origin \notin Signers THEN "BadOrigin"
  ELSE IF market_id \notin DOMAIN markets THEN "MarketNotFound"
  ELSE IF markets[market_id].oracle_outcome_report = None
    THEN "OutcomeNotReportedYet"
  ELSE IF markets[market_id].oracle_outcome_report[1]
            >= Len(OutcomesGet(market_id))
    THEN "InvalidOutcomeIndex"
  ELSE "Ok"

redeem(origin, market_id) ==
  /\ phase = "extrinsics"
  /\ LET err == RedeemError(origin, market_id)
     IN /\ last' = Result("redeem", err, 0)
        /\ IF err = "Ok"
           THEN LET reported_index == markets[market_id].oracle_outcome_report[1]
                    winner == OutcomesGet(market_id)[reported_index + 1].owner
                    pot == market_account(market_id)
                    reward == free[pot]
                IN /\ free' = Transfer(free, pot, winner, reward)
                   /\ markets' = [markets EXCEPT ![market_id].status = "Redeemed"]
                   /\ events' = <<[name |-> "MarketRedeemed",
                                   market_id |-> market_id,
                                   winner_outcome |-> reported_index,
                                   winner |-> winner]>>
           ELSE /\ events' = <<>>
                /\ UNCHANGED <<free, markets>>
  /\ phase' = "dispatched"
  /\ UNCHANGED <<now, market_counter, outcomes, buckets, reserved,
                 last_buy, cleared, debug_assert_failed>>

\* -------------------------------------------------------- clear_storage
\* Mutant of ClearStorageError: the grace window ends one block early.
ClearStorageErrorShortGrace(origin, market_id) ==
  IF origin \notin Signers THEN "BadOrigin"
  ELSE IF market_id \notin DOMAIN markets THEN "MarketNotFound"
  ELSE IF markets[market_id].status # "Redeemed" THEN "InvalidMarketStatus"
  ELSE IF /\ saturating_sub(now, markets[market_id].end)
               < MarketCreatorClearStorageTime
          /\ markets[market_id].creator # origin
    THEN "OnlyMarketCreatorAllowedYet"
  ELSE "Ok"

\* The first check of clear_storage that fails, in the order of the code.
ClearStorageError(origin, market_id) ==
  IF origin \notin Signers THEN "BadOrigin"
  ELSE IF market_id \notin DOMAIN markets THEN "MarketNotFound"
  ELSE IF markets[market_id].status # "Redeemed" THEN "InvalidMarketStatus"
  ELSE IF /\ saturating_sub(now, markets[market_id].end)
               <= MarketCreatorClearStorageTime
          /\ markets[market_id].creator # origin
    THEN "OnlyMarketCreatorAllowedYet"
  ELSE "Ok"

\* Mutant of clear_storage: the bond is unreserved to the creator whoever
\* the caller is.
clear_storage_always_unreserves(origin, market_id) ==
  /\ phase = "extrinsics"
  /\ LET err == ClearStorageError(origin, market_id)
     IN /\ last' = Result("clear_storage", err, 0)
        /\ events' = <<>>
        /\ IF err = "Ok"
           THEN LET market == markets[market_id]
                    actual == Min(reserved[market.creator], market.bond)
                IN /\ reserved' = [reserved EXCEPT ![market.creator] = @ - actual]
                   /\ free' = [free EXCEPT ![market.creator] = @ + actual]
                   /\ markets' = Remove(markets, market_id)
                   /\ outcomes' = Remove(outcomes, market_id)
                   /\ cleared' = cleared \cup {market_id}
           ELSE UNCHANGED <<free, reserved, markets, outcomes, cleared>>
  /\ phase' = "dispatched"
  /\ UNCHANGED <<now, market_counter, buckets, last_buy,
                 debug_assert_failed>>

\* repatriate_reserved(creator, who, bond, Free) when who is not the creator,
\* unreserve(creator, bond) when it is: both move what is reserved, up to
\* bond, and the result of neither is propagated.
clear_storage(origin, market_id) ==
  /\ phase = "extrinsics"
  /\ LET err == ClearStorageError(origin, market_id)
         who == origin
     IN /\ last' = Result("clear_storage", err, 0)
        /\ events' = <<>>
        /\ IF err = "Ok"
           THEN LET market == markets[market_id]
                    actual == Min(reserved[market.creator], market.bond)
                IN /\ reserved' = [reserved EXCEPT ![market.creator] = @ - actual]
                   /\ free' = [free EXCEPT ![who] = @ + actual]
                   /\ markets' = Remove(markets, market_id)
                   /\ outcomes' = Remove(outcomes, market_id)
                   /\ cleared' = cleared \cup {market_id}
           ELSE UNCHANGED <<free, reserved, markets, outcomes, cleared>>
  /\ phase' = "dispatched"
  /\ UNCHANGED <<now, market_counter, buckets, last_buy,
                 debug_assert_failed>>

\* -------------------------------------------------------------- on_idle
\* Iterator::max_by_key over (index, outcome): the index of the maximal
\* price, the last one when several are maximal; None for an empty list.
HighestOutcome(os) ==
  IF os = <<>> THEN None
  ELSE Some((CHOOSE i \in 1 .. Len(os) :
               /\ \A j \in 1 .. Len(os) : os[j].price <= os[i].price
               /\ \A j \in (i + 1) .. Len(os) : os[j].price < os[i].price) - 1)

\* Mutant of checked_div_per_component: the quotient is rounded up.
checked_div_rounding_up(w, unit) ==
  IF unit = 0 THEN None ELSE Some((w + unit - 1) \div unit)

\* Weight::checked_div_per_component, one component: None for a zero divisor
checked_div_per_component(w, unit) == IF unit = 0 THEN None ELSE Some(w \div unit)

RECURSIVE SortedSeq(_)
SortedSeq(S) ==
  IF S = {} THEN <<>>
  ELSE LET m == CHOOSE x \in S : \A y \in S : x <= y
       IN <<m>> \o SortedSeq(S \ {m})

\* emit_highest_outcomes(count) over the ids `scanned` that Outcomes::iter()
\* yields first: one event per id; total_weight is never assigned (the result
\* of total_weight.saturating_add is dropped), so Weight::zero() is returned.
emit_highest_outcomes(scanned) ==
  LET ids == SortedSeq(scanned)
  IN [events |-> [i \in 1 .. Len(ids) |->
                    [name |-> "HighestOutcome", market_id |-> ids[i],
                     highest_outcome |-> HighestOutcome(outcomes[ids[i]])]],
      weight |-> 0]

\* Outcomes::iter() runs in the order of the hashed keys: any `count` of the
\* stored ids may come first.
on_idle(remaining_weight) ==
  /\ phase = "extrinsics"
  /\ LET count == checked_div_per_component(remaining_weight, DoSomethingWeight)
     IN IF count # None
        THEN \E scanned \in SUBSET DOMAIN outcomes :
               /\ Cardinality(scanned) = Min(count[1], Cardinality(DOMAIN outcomes))
               /\ LET r == emit_highest_outcomes(scanned)
                  IN /\ events' = r.events
                     /\ last' = Result("on_idle", "Ok",
                                       saturating_sub(remaining_weight, r.weight))
        ELSE /\ events' = <<>>
             /\ last' = Result("on_idle", "Ok", remaining_weight)
  /\ phase' = "idle"
  /\ UNCHANGED <<now, storage, balances, last_buy, cleared,
                 debug_assert_failed>>

\* The executive notes the result of on_initialize or of the applied
\* extrinsic and turns to the next extrinsic.
NextExtrinsic ==
  /\ phase \in {"initialized", "dispatched"}
  /\ phase' = "extrinsics"
  /\ last' = Result("ready", "Ok", 0)
  /\ events' = <<>>
  /\ UNCHANGED <<now, storage, balances, last_buy, cleared,
                 debug_assert_failed>>

\* ------------------------------------------------------ specification
OutcomeAmounts == 0 .. (MaxOutcomes + 1)
OutcomeIndices == 0 .. MaxOutcomes
Prices == 0 .. MaxPrice
Weights == 0 .. MaxWeight

Next ==
  \/ OnInitialize
  \/ NextExtrinsic
  \/ \E origin \in Origins, outcome_amount \in OutcomeAmounts, end \in Ticks,
        oracle \in Oracles :
       create_market(origin, outcome_amount, end, oracle)
  \/ \E origin \in Origins, market_id \in MarketIds :
       destroy_market(origin, market_id)
  \/ \E origin \in Origins, market_id \in MarketIds,
        outcome_index \in OutcomeIndices, price \in Prices :
       buy_outcome(origin, market_id, outcome_index, price)
  \/ \E origin \in Origins, market_id \in MarketIds,
        outcome_index \in OutcomeIndices :
       report_as_oracle(origin, market_id, outcome_index)
  \/ \E origin \in Origins, market_id \in MarketIds : redeem(origin, market_id)
  \/ \E origin \in Origins, market_id \in MarketIds :
       clear_storage(origin, market_id)
  \/ \E remaining_weight \in Weights : on_idle(remaining_weight)
  \/ OnFinalize

Spec == Init /\ [][Next]_vars

\* ================================================================ claims
\* The call or hook whose result is being noted
Dispatched(op, result) ==
  phase = "dispatched" /\ last.op = op /\ last.result = result

\* ------------------------------------------------------------------ C1
\* C1: every successful buy_outcome(market_id, outcome_index, price) by a
\* buyer leaves the stored outcome with owner = buyer and price = price, and
\* the free balances are those before the call with the old price refunded
\* from the market account to the old owner (when that price is not zero) and
\* then price moved from the buyer to the market account.
C1_BuyOutcomeEffect ==
  [][\A who \in Signers, market_id \in MarketIds,
        outcome_index \in OutcomeIndices, price \in Prices :
       (buy_outcome(who, market_id, outcome_index, price) /\ last'.result = "Ok")
       => LET old == outcomes[market_id][outcome_index + 1]
              new == outcomes'[market_id][outcome_index + 1]
              pot == market_account(market_id)
              refunded == IF old.price # 0
                          THEN Transfer(free, pot, old.owner, old.price)
                          ELSE free
          IN /\ new.owner = who
             /\ new.price = price
             /\ free' = Transfer(refunded, who, pot, price)]_vars

\* ------------------------------------------------------------------ C2
\* C2: for every stored market that is Active or Closed, the stored prices of
\* its outcomes add up to the free balance of its market account.
C2_EscrowEqualsSumOfPrices ==
  \A market_id \in DOMAIN markets :
    markets[market_id].status \in {"Active", "Closed"}
    => SumPrices(OutcomesGet(market_id)) = free[market_account(market_id)]

\* ------------------------------------------------------------------ C3
\* C3: successful buys of one outcome slot have strictly increasing prices.
\* last_buy holds the last successful buy of any slot, so when a buy succeeds
\* on the slot last_buy names, last_buy is the previous successful buy of
\* that slot and the new price must be above its price.
C3_PricesStrictlyIncrease ==
  [][(/\ phase' = "dispatched"
      /\ last'.op = "buy_outcome"
      /\ last'.result = "Ok"
      /\ last_buy # None
      /\ last_buy'[1].market_id = last_buy[1].market_id
      /\ last_buy'[1].outcome_index = last_buy[1].outcome_index)
     => last_buy'[1].price > last_buy[1].price]_vars

\* ------------------------------------------------------------------ C4
\* C4: every successful redeem moves the whole free balance of the market
\* account to the owner of the reported outcome, who is the last successful
\* buyer of that slot (the creator when nothing was ever bought), and leaves
\* the market account empty and the market Redeemed. The recipient is stated
\* where the history decides it: no buy at all, or the last buy on that slot.
C4_RedeemPaysLastBuyer ==
  [][\A who \in Signers, market_id \in MarketIds :
       (redeem(who, market_id) /\ last'.result = "Ok")
       => LET pot == market_account(market_id)
              reported_index == markets[market_id].oracle_outcome_report[1]
          IN /\ free'[pot] = 0
             /\ markets'[market_id].status = "Redeemed"
             /\ last_buy = None
                => free' = Transfer(free, pot, markets[market_id].creator,
                                    free[pot])
             /\ (/\ last_buy # None
                 /\ last_buy[1].market_id = market_id
                 /\ last_buy[1].outcome_index = reported_index)
                => free' = Transfer(free, pot, last_buy[1].buyer, free[pot])]_vars

\* ------------------------------------------------------------------ C5
\* C5: a redeem call on a market that is absent or whose status is not
\* Reported (Active, Closed, Redeemed) fails and deposits no event.
C5_RedeemOnlyWhenReported ==
  [][\A who \in Signers, market_id \in MarketIds :
       (/\ redeem(who, market_id)
        /\ ~(/\ market_id \in DOMAIN markets
             /\ markets[market_id].status = "Reported"))
       => (last'.result # "Ok" /\ events' = <<>>)]_vars

\* ------------------------------------------------------------------ C6
\* C6: whatever the step, a market that stays stored keeps its status or
\* moves one step forward, Active to Closed, Closed to Reported or Reported
\* to Redeemed; and an id whose record was removed stays without a record.
StatusSteps ==
  {<<"Active", "Closed">>, <<"Closed", "Reported">>, <<"Reported", "Redeemed">>}

C6_StatusForwardOnly ==
  [][/\ \A market_id \in DOMAIN markets \cap DOMAIN markets' :
          \/ markets'[market_id].status = markets[market_id].status
          \/ <<markets[market_id].status, markets'[market_id].status>>
               \in StatusSteps
     /\ \A market_id \in DOMAIN markets' \ DOMAIN markets :
          /\ market_id = market_counter
          /\ markets'[market_id].status = "Active"]_vars

\* A market went the whole way: it has just been redeemed.
C6_Witness ==
  /\ Dispatched("redeem", "Ok")
  /\ \E market_id \in DOMAIN markets : markets[market_id].status = "Redeemed"

\* ------------------------------------------------------------------ C7
\* C7: a stored report never changes; report_as_oracle succeeds exactly when
\* the market exists, has no report, is Closed and the caller is its oracle;
\* every other call changes nothing, and a call on a market that has a
\* report fails with OutcomeAlreadyReported for every caller.
C7_ReportAtMostOnce ==
  [][/\ \A market_id \in DOMAIN markets \cap DOMAIN markets' :
          markets'[market_id].oracle_outcome_report
              # markets[market_id].oracle_outcome_report
          => /\ markets[market_id].oracle_outcome_report = None
             /\ last'.op = "report_as_oracle"
     /\ last'.op = "report_as_oracle"
        => /\ last'.result # "Ok"
              => (UNCHANGED <<storage, balances>> /\ events' = <<>>)
           /\ \A who \in Origins, market_id \in MarketIds,
                 outcome_index \in OutcomeIndices :
                report_as_oracle(who, market_id, outcome_index)
                => LET allowed ==
                         /\ market_id \in DOMAIN markets
                         /\ markets[market_id].oracle_outcome_report = None
                         /\ markets[market_id].status = "Closed"
                         /\ markets[market_id].oracle = who
                   IN /\ (last'.result = "Ok") <=> allowed
                      /\ allowed
                         => markets'[market_id].oracle_outcome_report
                              = Some(outcome_index)
                      /\ (/\ who \in Signers
                          /\ market_id \in DOMAIN markets
                          /\ markets[market_id].oracle_outcome_report # None)
                         => last'.result = "OutcomeAlreadyReported"]_vars

\* A report was refused on a market that already has one.
C7_Witness ==
  /\ Dispatched("report_as_oracle", "OutcomeAlreadyReported")
  /\ \E market_id \in DOMAIN markets :
       markets[market_id].oracle_outcome_report # None

\* ------------------------------------------------------------------ C8
\* C8: the first id is 1; a successful create_market assigns the counter's
\* value, which no record uses or used, and advances the counter by one;
\* every other step, a failed create_market included, leaves the counter; so
\* every stored id is below the counter and no id is assigned twice.
C8_IdsStrictlyIncrease ==
  /\ [](/\ market_counter >= 1
        /\ \A market_id \in DOMAIN markets : market_id < market_counter
        /\ market_counter = 1 => markets = <<>>)
  /\ [][IF phase' = "dispatched" /\ last'.op = "create_market"
           /\ last'.result = "Ok"
        THEN /\ events'[1].market_id = market_counter
             /\ market_counter' = market_counter + 1
             /\ DOMAIN markets' = DOMAIN markets \cup {market_counter}
             /\ market_counter \notin DOMAIN markets
        ELSE /\ market_counter' = market_counter
             /\ DOMAIN markets' \subseteq DOMAIN markets]_vars

\* Two ids were assigned, the first one's record is gone, and a further
\* create_market has just failed.
C8_Witness ==
  /\ phase = "dispatched" /\ last.op = "create_market" /\ last.result # "Ok"
  /\ market_counter = 3
  /\ DOMAIN markets = {2}

\* ------------------------------------------------------------------ C9
\* C9: on_initialize(n) closes exactly the stored markets whose end is n,
\* all of them Active until then, deposits one MarketClosed for each and
\* removes bucket n; running it again on the result closes nothing and
\* changes nothing; no other step takes a market out of Active; so a stored
\* market is Active exactly while the block number is below its end.
C9_ClosedExactlyAtEnd ==
  /\ [](/\ \A market_id \in DOMAIN markets :
             markets[market_id].status = "Active"
             <=> now < markets[market_id].end
        /\ \A n \in Ticks :
             LET once == on_initialize_impl(markets, buckets, n)
                 twice == on_initialize_impl(once.markets, once.buckets, n)
             IN /\ twice.events = <<>>
                /\ twice.markets = once.markets
                /\ twice.buckets = once.buckets)
  /\ [][IF last'.op = "on_initialize"
        THEN /\ now' = now + 1
             /\ now' \notin DOMAIN buckets'
             /\ \A market_id \in DOMAIN markets :
                  IF markets[market_id].end = now'
                  THEN /\ markets[market_id].status = "Active"
                       /\ markets'[market_id]
                            = [markets[market_id] EXCEPT !.status = "Closed"]
                       /\ \E i \in 1 .. Len(events') :
                            events'[i] = [name |-> "MarketClosed",
                                          market_id |-> market_id]
                  ELSE markets'[market_id] = markets[market_id]
             /\ Len(events') = Cardinality({market_id \in DOMAIN markets :
                                              markets[market_id].end = now'})
        ELSE \A market_id \in DOMAIN markets \cap DOMAIN markets' :
               markets[market_id].status = "Active"
               => markets'[market_id].status = "Active"]_vars

\* on_initialize has just closed a market.
C9_Witness ==
  /\ phase = "initialized"
  /\ events # <<>>
  /\ \E market_id \in DOMAIN markets :
       markets[market_id].status = "Closed" /\ markets[market_id].end = now

\* ----------------------------------------------------------------- C10
\* C10: a create_market call fails when the creator's free balance is below
\* the bond, outcome_amount is 0, end is less than MinMarketPeriod after the
\* current block, outcome_amount is above MaxOutcomes, the bucket at end is
\* full or the counter cannot be advanced; and every create_market call that
\* fails leaves the counter, the markets, the outcomes, the buckets and the
\* free and reserved balances as they were.
CreateMustFail(who, outcome_amount, end) ==
  \/ free[who] < CreatorBond
  \/ outcome_amount = 0
  \/ end - now < MinMarketPeriod
  \/ outcome_amount > MaxOutcomes
  \/ (end \in DOMAIN buckets /\ Len(buckets[end]) = CacheSize)
  \/ market_counter = MarketIdMax

C10_FailedCreateChangesNothing ==
  [][last'.op = "create_market"
     => /\ last'.result # "Ok" => UNCHANGED <<storage, balances>>
        /\ \A who \in Signers, outcome_amount \in OutcomeAmounts, end \in Ticks,
              oracle \in Oracles :
             (/\ create_market(who, outcome_amount, end, oracle)
              /\ CreateMustFail(who, outcome_amount, end))
             => last'.result # "Ok"]_vars

\* create_market has just failed on a full bucket, with records stored.
C10_Witness ==
  /\ Dispatched("create_market", "MarketIdsPerCloseBlockStorageOverflow")
  /\ markets # <<>>

\* ----------------------------------------------------------------- C11
\* C11: a buy_outcome call fails when the market is absent or not Active,
\* outcome_index is out of range, price is not above the stored price or the
\* buyer's free balance is below price; and every buy_outcome call that
\* fails, whatever the failure (a failed transfer included), leaves the
\* outcome lists, the free balance of every account (market account, buyer,
\* previous owner) and all other storage and balances as they were. The
\* arguments of a call that succeeded are those last_buy holds after it.
BuyMustFail(who, market_id, outcome_index, price) ==
  \/ market_id \notin DOMAIN markets
  \/ markets[market_id].status # "Active"
  \/ outcome_index >= Len(OutcomesGet(market_id))
  \/ price <= OutcomesGet(market_id)[outcome_index + 1].price
  \/ free[who] < price

C11_FailedBuyChangesNothing ==
  [][last'.op = "buy_outcome"
     => IF last'.result # "Ok"
        THEN UNCHANGED <<storage, balances, last_buy>> /\ events' = <<>>
        ELSE LET call == last_buy'[1]
             IN ~BuyMustFail(call.buyer, call.market_id, call.outcome_index,
                             call.price)]_vars

\* A buy has just been refused for its price on a market whose account holds
\* the payment of an earlier buy.
C11_Witness ==
  /\ Dispatched("buy_outcome", "PriceTooLow")
  /\ last_buy # None
  /\ \E market_id \in DOMAIN markets :
       /\ markets[market_id].status = "Active"
       /\ free[market_account(market_id)] > 0

\* ----------------------------------------------------------------- C12
\* C12: a clear_storage call by an account that is not the creator of the
\* stored market succeeds only when the market is Redeemed and the block
\* number is more than MarketCreatorClearStorageTime past its end; on a
\* Redeemed market within that time it fails with OnlyMarketCreatorAllowedYet
\* and changes no storage and no balance; a call by the creator on a Redeemed
\* market succeeds whatever the block number.
C12_ClearStorageGrace ==
  [][last'.op = "clear_storage"
     => \A who \in Signers, market_id \in DOMAIN markets :
          clear_storage(who, market_id)
          => LET market == markets[market_id]
                 redeemed == market.status = "Redeemed"
                 past_grace == now - market.end > MarketCreatorClearStorageTime
             IN IF who = market.creator
                THEN redeemed => last'.result = "Ok"
                ELSE /\ last'.result = "Ok" => (redeemed /\ past_grace)
                     /\ (redeemed /\ ~past_grace)
                        => /\ last'.result = "OnlyMarketCreatorAllowedYet"
                           /\ UNCHANGED <<storage, balances>>]_vars

\* Another account than the creator has just been refused on a Redeemed
\* market, in the block the market ended.
C12_Witness ==
  /\ Dispatched("clear_storage", "OnlyMarketCreatorAllowedYet")
  /\ \E market_id \in DOMAIN markets :
       /\ markets[market_id].status = "Redeemed"
       /\ now - markets[market_id].end <= MarketCreatorClearStorageTime

\* ----------------------------------------------------------------- C13
\* The step is a call by who, or by Root for destroy_market, on market_id.
CallOn(who, market_id) ==
  \/ \E outcome_index \in OutcomeIndices, price \in Prices :
       buy_outcome(who, market_id, outcome_index, price)
  \/ \E outcome_index \in OutcomeIndices :
       report_as_oracle(who, market_id, outcome_index)
  \/ redeem(who, market_id)
  \/ clear_storage(who, market_id)
  \/ destroy_market("Root", market_id)

\* What a successful clear_storage(market_id) by who does: both records go,
\* and the bond leaves the creator's reserved balance for the free balance of
\* who (the creator's own when who is the creator).
ClearStorageEffect ==
  (last'.op = "clear_storage" /\ last'.result = "Ok")
  => \A who \in Signers, market_id \in DOMAIN markets :
       clear_storage(who, market_id)
       => LET market == markets[market_id]
          IN /\ market_id \notin DOMAIN markets'
             /\ market_id \notin DOMAIN outcomes'
             /\ reserved' = [reserved EXCEPT ![market.creator] = @ - market.bond]
             /\ free' = [free EXCEPT ![who] = @ + market.bond]

\* C13 as stated: a successful clear_storage has the effect above, an id it
\* removed is never stored again, and every later call on such an id fails
\* with MarketNotFound.
C13_ClearedThenMarketNotFound ==
  [][/\ ClearStorageEffect
     /\ cleared \cap (DOMAIN markets' \cup DOMAIN outcomes') = {}
     /\ \A market_id \in cleared, who \in Signers :
          CallOn(who, market_id) => last'.result = "MarketNotFound"]_vars

\* C13, amended: a successful clear_storage has the effect above, an id it
\* removed is never stored again, and every later call on such an id fails
\* and changes no storage and no balance: with InsufficientBuyerBalance when
\* it is a buy_outcome whose price is above the buyer's free balance (that
\* check precedes the lookup), with MarketNotFound otherwise.
C13_ClearStorageEffect ==
  [][/\ ClearStorageEffect
     /\ cleared \cap (DOMAIN markets' \cup DOMAIN outcomes') = {}
     /\ \A market_id \in cleared, who \in Signers :
          CallOn(who, market_id)
          => /\ UNCHANGED <<storage, balances>>
             /\ \/ last'.result = "MarketNotFound"
                \/ /\ last'.op = "buy_outcome"
                   /\ last'.result = "InsufficientBuyerBalance"
                   /\ \E price \in Prices : free[who] < price]_vars

\* An account has just cleared a market that another account created: no
\* outcome was ever bought, and it holds its initial balance and the bond.
C13_Witness ==
  /\ Dispatched("clear_storage", "Ok")
  /\ cleared # {}
  /\ last_buy = None
  /\ \E who \in Signers : free[who] = InitialBalance + CreatorBond

\* ----------------------------------------------------------------- C14
\* The stored markets whose report is an index outside their outcome list
BadlyReported ==
  {market_id \in DOMAIN markets :
     /\ markets[market_id].oracle_outcome_report # None
     /\ markets[market_id].oracle_outcome_report[1]
          >= Len(OutcomesGet(market_id))}

\* C14: report_as_oracle by the oracle of a Closed market without a report
\* succeeds also when outcome_index is outside the outcome list, and leaves
\* the market Reported with that index as its report; such a market keeps
\* that report and its outcome list for as long as it is stored, and every
\* redeem call on it fails with InvalidOutcomeIndex, deposits no event and
\* leaves every market (its status included) and every free and reserved
\* balance (the market account's included) as they were.
C14_BadReportBlocksRedeem ==
  [][/\ last'.op = "report_as_oracle"
        => \A who \in Signers, market_id \in DOMAIN markets,
              outcome_index \in OutcomeIndices :
             (/\ report_as_oracle(who, market_id, outcome_index)
              /\ markets[market_id].status = "Closed"
              /\ markets[market_id].oracle_outcome_report = None
              /\ markets[market_id].oracle = who
              /\ outcome_index >= Len(OutcomesGet(market_id)))
             => /\ last'.result = "Ok"
                /\ markets'[market_id].status = "Reported"
                /\ markets'[market_id].oracle_outcome_report
                     = Some(outcome_index)
                /\ market_id \in BadlyReported'
     /\ \A market_id \in BadlyReported :
          /\ market_id \in DOMAIN markets' => market_id \in BadlyReported'
          /\ \A who \in Signers :
               redeem(who, market_id)
               => /\ last'.result = "InvalidOutcomeIndex"
                  /\ events' = <<>>
                  /\ UNCHANGED <<storage, balances>>]_vars

\* A redeem has just been refused on a market whose report is outside its
\* outcome list, while the market account holds the payment of a buy.
C14_Witness ==
  /\ Dispatched("redeem", "InvalidOutcomeIndex")
  /\ \E market_id \in BadlyReported :
       /\ markets[market_id].status = "Reported"
       /\ free[market_account(market_id)] > 0

\* ----------------------------------------------------------------- C15
\* The smallest index whose price is the maximum of the list; None for <<>>
FirstHighest(os) ==
  IF os = <<>> THEN None
  ELSE Some((CHOOSE i \in 1 .. Len(os) :
               /\ \A j \in 1 .. Len(os) : os[j].price <= os[i].price
               /\ \A j \in 1 .. (i - 1) : os[j].price < os[i].price) - 1)

\* C15: every HighestOutcome event on_idle has deposited names the smallest
\* index whose price is the maximum of the market's outcome list (0 when all
\* prices are equal), and None exactly when the list is empty.
C15_HighestIsFirstMaximum ==
  phase = "idle"
  => \A i \in 1 .. Len(events) :
       /\ events[i].highest_outcome = FirstHighest(outcomes[events[i].market_id])
       /\ events[i].highest_outcome = None
          <=> outcomes[events[i].market_id] = <<>>

\* ----------------------------------------------------------------- C16
\* C16: emit_highest_outcomes returns DoSomethingWeight for each market it
\* scanned, and on_idle(remaining_weight) returns remaining_weight less that
\* amount; so a run that scanned a market consumed more than nothing.
C16_ConsumedWeightPerScan ==
  [][last'.op = "on_idle"
     => \A remaining_weight \in Weights :
          on_idle(remaining_weight)
          => LET scanned == {events'[i].market_id : i \in 1 .. Len(events')}
                 consumed == emit_highest_outcomes(scanned).weight
             IN /\ consumed = Cardinality(scanned) * DoSomethingWeight
                /\ scanned # {} => consumed > 0
                /\ last'.weight = saturating_sub(remaining_weight, consumed)]_vars

\* ----------------------------------------------------------------- C17
\* C17: on_idle(remaining_weight) deposits one HighestOutcome event for each
\* of min(remaining_weight div DoSomethingWeight, number of stored outcome
\* lists) distinct stored ids and nothing else: never more events than whole
\* units fit in remaining_weight, none when remaining_weight is below one
\* unit; and it changes no market, outcome list, bucket, counter or balance.
C17_IdleScanWithinBudget ==
  [][last'.op = "on_idle"
     => \A remaining_weight \in Weights :
          on_idle(remaining_weight)
          => LET scanned == {events'[i].market_id : i \in 1 .. Len(events')}
             IN /\ Len(events')
                     = Min(remaining_weight \div DoSomethingWeight,
                           Cardinality(DOMAIN outcomes))
                /\ Cardinality(scanned) = Len(events')
                /\ scanned \subseteq DOMAIN outcomes
                /\ \A i \in 1 .. Len(events') :
                     events'[i].name = "HighestOutcome"
                /\ Len(events') * DoSomethingWeight <= remaining_weight
                /\ remaining_weight < DoSomethingWeight => events' = <<>>
                /\ UNCHANGED <<storage, balances>>]_vars

\* on_idle has just scanned a market and left another unscanned, its budget
\* spent.
C17_Witness ==
  /\ phase = "idle"
  /\ events # <<>>
  /\ Len(events) < Cardinality(DOMAIN outcomes)

\* ----------------------------------------------------------------- C18
\* C18: a successful create_market adds CreatorBond, the bond it records, to
\* the creator's reserved balance; a successful clear_storage takes the
\* removed market's bond from its creator's reserved balance; no other step
\* (a failed call, buy_outcome, report_as_oracle, redeem, destroy_market, a
\* hook) changes a reserved balance. So what is reserved in all is one bond
\* for every id assigned less one for every id cleared, and a cleared id, not
\* being stored, is not cleared again.
C18_BondReservedOnceReleasedOnce ==
  /\ [](/\ reserved["A"] + reserved["B"]
             = CreatorBond * (market_counter - 1 - Cardinality(cleared))
        /\ cleared \cap DOMAIN markets = {}
        /\ \A a \in Accounts \ Signers : reserved[a] = 0
        /\ \A market_id \in DOMAIN markets :
             markets[market_id].bond = CreatorBond)
  /\ [][IF last'.op = "create_market" /\ last'.result = "Ok"
        THEN reserved' = [reserved EXCEPT
                            ![markets'[market_counter].creator] = @ + CreatorBond]
        ELSE IF last'.op = "clear_storage" /\ last'.result = "Ok"
        THEN \E market_id \in DOMAIN markets \ DOMAIN markets' :
               /\ cleared' = cleared \cup {market_id}
               /\ reserved' = [reserved EXCEPT ![markets[market_id].creator]
                                                 = @ - markets[market_id].bond]
        ELSE reserved' = reserved /\ cleared' = cleared]_vars

\* A market has just been cleared while the bond of another id is still
\* reserved.
C18_Witness ==
  /\ Dispatched("clear_storage", "Ok")
  /\ cleared # {}
  /\ \E who \in Signers : reserved[who] > 0

\* ----------------------------------------------------------------- C19
\* C19: whenever on_initialize(n) runs, every id of bucket n has no market
\* record or names a market that is Active when its turn comes, so the
\* debug_assert! of on_initialize holds for each of them; no debug_assert!
\* has failed in any reachable state.
C19_OnInitializeAssertionHolds ==
  /\ [](~debug_assert_failed)
  /\ [][last'.op = "on_initialize"
        => LET market_ids == BucketGet(buckets, now')
           IN /\ on_initialize_impl(markets, buckets, now').asserted
              /\ \A i \in 1 .. Len(market_ids) :
                   \/ market_ids[i] \notin DOMAIN markets
                   \/ /\ markets[market_ids[i]].status = "Active"
                      /\ \A j \in 1 .. (i - 1) :
                           market_ids[j] # market_ids[i]]_vars

\* on_initialize has just closed market 2, after the record of market 1 was
\* removed.
C19_Witness ==
  /\ phase = "initialized"
  /\ events = <<[name |-> "MarketClosed", market_id |-> 2]>>
  /\ 1 \notin DOMAIN markets
  /\ ~debug_assert_failed

\* ----------------------------------------------------------------- C20
\* The positions <<n, i>> at which market_id stands in the buckets
BucketPositions(market_id) ==
  {p \in UNION {{<<n, i>> : i \in 1 .. Len(buckets[n])} : n \in DOMAIN buckets} :
     buckets[p[1]][p[2]] = market_id}

\* C20: in every reachable state an id stands at no more than one position
\* of the buckets (so in at most one bucket and once in it); the id of every
\* stored Active market stands in the bucket keyed by the market's end; and
\* no bucket holds more than CacheSize ids.
C20_BucketsWellFormed ==
  /\ \A market_id \in MarketIds : Cardinality(BucketPositions(market_id)) <= 1
  /\ \A market_id \in DOMAIN markets :
       markets[market_id].status = "Active"
       => \E i \in 1 .. Len(BucketGet(buckets, markets[market_id].end)) :
            BucketPositions(market_id) = {<<markets[market_id].end, i>>}
  /\ \A n \in DOMAIN buckets : Len(buckets[n]) <= CacheSize

\* A create_market has just pushed its id: two Active markets stand in two
\* buckets, each of them full.
C20_Witness ==
  /\ Dispatched("create_market", "Ok")
  /\ \A n \in DOMAIN buckets : Len(buckets[n]) = CacheSize
  /\ Cardinality(DOMAIN buckets) = 2
  /\ Cardinality({market_id \in DOMAIN markets :
                    markets[market_id].status = "Active"}) = 2

====
